---- MODULE Spec2Model ----
(***************************************************************************)
(* Model of the metadata harmonization of matchms:                         *)
(*   matchms/Metadata.py                     Metadata (__init__, set,      *)
(*                                           harmonize_metadata)           *)
(*   matchms/filtering/metadata_filters.py   _convert_precursor_mz,        *)
(*                                           _add_precursor_mz_metadata    *)
(*   matchms/filtering/clean_inchis.py       clean_inchis                  *)
(*                                                                         *)
(* Python values are records [t, n, s, items]: t is the Python type name,  *)
(* n the number (an int, or a float counted in tenths), s the characters   *)
(* of a str (a sequence of one-character strings) and items the elements   *)
(* of a list.  A dict is the sequence of its (key, value) entries in       *)
(* insertion order.                                                        *)
(***************************************************************************)
EXTENDS Integers, Sequences, FiniteSets, TLC

\* Number of operations applied to one record after it was drawn.
MaxCalls == 2

(***************************************************************************)
(* Python values                                                           *)
(***************************************************************************)
Val(t, n, s, items) == [t |-> t, n |-> n, s |-> s, items |-> items]
None == Val("NoneType", 0, <<>>, <<>>)
PyStr(s) == Val("str", 0, s, <<>>)
PyFloat(tenths) == Val("float", tenths, <<>>, <<>>)
PyInt(n) == Val("int", n, <<>>, <<>>)
PyList(items) == Val("list", 0, <<>>, items)
PyDict == Val("dict", 0, <<>>, <<>>)

\* isinstance(v, types)
isinstance(v, types) == v.t \in types

(***************************************************************************)
(* str methods, on sequences of characters                                 *)
(***************************************************************************)
Whitespace == {" ", "\t", "\n", "\r", "\f"}

RECURSIVE lstrip(_)
lstrip(s) == IF s # <<>> /\ Head(s) \in Whitespace THEN lstrip(Tail(s)) ELSE s

RECURSIVE rstrip(_)
rstrip(s) ==
    IF s # <<>> /\ s[Len(s)] \in Whitespace THEN rstrip(SubSeq(s, 1, Len(s) - 1)) ELSE s

\* str.strip()
strip(s) == rstrip(lstrip(s))

UpperCase == <<"A", "B", "C", "D", "E", "F", "G", "H", "I", "J", "K", "L", "M",
               "N", "O", "P", "Q", "R", "S", "T", "U", "V", "W", "X", "Y", "Z">>
LowerCase == <<"a", "b", "c", "d", "e", "f", "g", "h", "i", "j", "k", "l", "m",
               "n", "o", "p", "q", "r", "s", "t", "u", "v", "w", "x", "y", "z">>

IsUpper(c) == \E i \in 1..Len(UpperCase) : UpperCase[i] = c

\* str.lower()
lower(s) ==
    [i \in 1..Len(s) |->
        IF IsUpper(s[i])
        THEN LowerCase[CHOOSE j \in 1..Len(UpperCase) : UpperCase[j] = s[i]]
        ELSE s[i]]

\* str.endswith(suffix)
endswith(s, suffix) ==
    /\ Len(s) >= Len(suffix)
    /\ SubSeq(s, Len(s) - Len(suffix) + 1, Len(s)) = suffix

\* s[:-n]
DropLast(s, n) == SubSeq(s, 1, Len(s) - n)

\* str.replace(old, "") for a one-character old
RemoveChar(s, old) == SelectSeq(s, LAMBDA c : c # old)

\* Is there an occurrence of sep in s starting at position i?
OccursAt(s, sep, i) ==
    /\ i >= 1
    /\ i + Len(sep) - 1 <= Len(s)
    /\ SubSeq(s, i, i + Len(sep) - 1) = sep

\* str.split(sep)[-1]: what follows the last occurrence of sep, or all of s
SplitLast(s, sep) ==
    LET occ == {i \in 1..Len(s) : OccursAt(s, sep, i)}
    IN  IF occ = {} THEN s
        ELSE LET last == CHOOSE i \in occ : \A j \in occ : j <= i
             IN  SubSeq(s, last + Len(sep), Len(s))

Digits == <<"0", "1", "2", "3", "4", "5", "6", "7", "8", "9">>
IsDigit(c) == \E i \in 1..Len(Digits) : Digits[i] = c
DigitVal(c) == (CHOOSE i \in 1..Len(Digits) : Digits[i] = c) - 1

RECURSIVE DigitsVal(_)
DigitsVal(s) ==
    IF s = <<>> THEN 0 ELSE 10 * DigitsVal(SubSeq(s, 1, Len(s) - 1)) + DigitVal(s[Len(s)])

AllDigits(s) == \A i \in 1..Len(s) : IsDigit(s[i])

\* float(s): ok and the value in tenths, or ValueError.  Exact on decimal
\* literals with an optional sign and at most one fractional digit, which are
\* the numeric strings of the model; every other string of the model is one
\* Python's float() rejects.
float_str(s) ==
    LET signed == s # <<>> /\ Head(s) \in {"+", "-"}
        body   == IF signed THEN Tail(s) ELSE s
        sign   == IF signed /\ Head(s) = "-" THEN -1 ELSE 1
        dots   == {i \in 1..Len(body) : body[i] = "."}
        dot    == IF dots = {} THEN Len(body) + 1 ELSE CHOOSE i \in dots : TRUE
        whole  == SubSeq(body, 1, dot - 1)
        frac   == SubSeq(body, dot + 1, Len(body))
        ok     == /\ Cardinality(dots) <= 1
                  /\ whole # <<>>
                  /\ AllDigits(whole)
                  /\ AllDigits(frac)
                  /\ Len(frac) <= 1
    IN  IF ok
        THEN [ok |-> TRUE,
              tenths |-> sign * (10 * DigitsVal(whole) + DigitsVal(frac))]
        ELSE [ok |-> FALSE, tenths |-> 0]

\* float(v) for a number v
float_num(v) == IF v.t = "int" THEN PyFloat(10 * v.n) ELSE v

(***************************************************************************)
(* dict methods, on sequences of entries [k, v]                            *)
(***************************************************************************)
Entry(k, v) == [k |-> k, v |-> v]

\* dict.keys(), in insertion order
keys(d) == [i \in 1..Len(d) |-> d[i].k]

HasKey(d, k) == \E i \in 1..Len(d) : d[i].k = k

\* dict.get(key, default)
get(d, k, default) ==
    IF HasKey(d, k) THEN d[CHOOSE i \in 1..Len(d) : d[i].k = k].v ELSE default

\* dict[key] = value: an existing key keeps its place, a new one goes last
setitem(d, k, v) ==
    IF HasKey(d, k)
    THEN [i \in 1..Len(d) |-> IF d[i].k = k THEN Entry(k, v) ELSE d[i]]
    ELSE Append(d, Entry(k, v))

\* dict.pop(key, None)
pop(d, k) == SelectSeq(d, LAMBDA e : e.k # k)

\* value[0]
Subscript0(v) ==
    CASE v.t = "list" ->
            IF v.items = <<>> THEN [exc |-> "IndexError", v |-> None]
            ELSE [exc |-> "none", v |-> v.items[1]]
      [] v.t = "str" ->
            IF v.s = <<>> THEN [exc |-> "IndexError", v |-> None]
            ELSE [exc |-> "none", v |-> PyStr(<<v.s[1]>>)]
      [] v.t = "dict" -> [exc |-> "KeyError", v |-> None]
      [] OTHER -> [exc |-> "TypeError", v |-> None]

(***************************************************************************)
(* matchms/filtering/metadata_filters.py                                   *)
(***************************************************************************)
_default_key == "precursor_mz"

\* The aliases, declared in the other order.
_accepted_keys_swapped == <<"precursor_mass", "precursormz">>

_accepted_keys == <<"precursormz", "precursor_mass">>
_accepted_types == {"float", "str", "int"}
_accepted_missing_entries ==
    {<<>>, <<"N", "/", "A">>, <<"N", "A">>, <<"n", "/", "a">>}

\* The key no dict holds: get_first_common_element's None.
NoKey == "None"

\* matchms.utils.get_first_common_element(first, second): the first key of
\* the declared order `second` that is present in `first`, or None.
get_first_common_element(first, second) ==
    LET common == {i \in 1..Len(second) : \E j \in 1..Len(first) : first[j] = second[i]}
    IN  IF common = {} THEN NoKey
        ELSE second[CHOOSE i \in common : \A j \in common : i <= j]

_convert_precursor_mz(precursor_mz) ==
    IF precursor_mz = None THEN None
    ELSE IF isinstance(precursor_mz, {"str"}) /\ precursor_mz.s \in _accepted_missing_entries
    THEN None
    ELSE IF ~isinstance(precursor_mz, _accepted_types) THEN None
    ELSE IF isinstance(precursor_mz, {"str"})
    THEN LET f == float_str(strip(precursor_mz.s))
         IN  IF f.ok THEN PyFloat(f.tenths) ELSE None
    ELSE precursor_mz

RECURSIVE PopAll(_, _)
PopAll(d, ks) == IF ks = <<>> THEN d ELSE PopAll(pop(d, Head(ks)), Tail(ks))

\* A resolver that removes the alias keys on the pepmass path too.
_add_precursor_mz_metadata_popping(metadata) ==
    LET precursor_mz_key ==
            get_first_common_element(keys(metadata), <<_default_key>> \o _accepted_keys)
        precursor_mz == _convert_precursor_mz(get(metadata, precursor_mz_key, None))
        pepmass == get(metadata, "pepmass", None)
        first == Subscript0(pepmass)
    IN  IF isinstance(precursor_mz, {"float", "int"})
        THEN [exc |-> "none",
              d |-> PopAll(setitem(metadata, "precursor_mz", float_num(precursor_mz)),
                           _accepted_keys)]
        ELSE IF pepmass = None THEN [exc |-> "none", d |-> metadata]
        ELSE IF first.exc # "none" THEN [exc |-> first.exc, d |-> metadata]
        ELSE IF _convert_precursor_mz(first.v) # None
        THEN [exc |-> "none",
              d |-> PopAll(setitem(metadata, "precursor_mz", first.v), _accepted_keys)]
        ELSE [exc |-> "none", d |-> metadata]

_add_precursor_mz_metadata(metadata) ==
    LET precursor_mz_key ==
            get_first_common_element(keys(metadata), <<_default_key>> \o _accepted_keys)
        precursor_mz == _convert_precursor_mz(get(metadata, precursor_mz_key, None))
        pepmass == get(metadata, "pepmass", None)
        first == Subscript0(pepmass)
    IN  IF isinstance(precursor_mz, {"float", "int"})
        THEN [exc |-> "none",
              d |-> PopAll(setitem(metadata, "precursor_mz", float_num(precursor_mz)),
                           _accepted_keys)]
        ELSE IF pepmass = None THEN [exc |-> "none", d |-> metadata]
        ELSE IF first.exc # "none" THEN [exc |-> first.exc, d |-> metadata]
        ELSE IF _convert_precursor_mz(first.v) # None
        THEN [exc |-> "none", d |-> setitem(metadata, "precursor_mz", first.v)]
        ELSE [exc |-> "none", d |-> metadata]

(***************************************************************************)
(* matchms/Metadata.py                                                     *)
(***************************************************************************)
NA == <<"n", "/", "a">>

\* matchms.filtering.interpret_pepmass._interpret_pepmass_metadata: takes the
\* first token of pepmass as the mass candidate, leaves pepmass in place for
\* the resolver and writes no precursor_mz itself.
_interpret_pepmass_metadata(metadata) == metadata

\* matchms.filtering.make_charge_int._convert_charge_to_int: an int from "2",
\* "2+", "+2", "-1", "1-" or a float without fractional part, None otherwise.
_convert_charge_to_int(charge) ==
    CASE charge.t = "int" -> charge
      [] charge.t = "float" ->
            IF charge.n % 10 = 0 THEN PyInt(charge.n \div 10) ELSE None
      [] charge.t = "str" ->
            LET s == strip(charge.s)
                pre == s # <<>> /\ Head(s) \in {"+", "-"}
                post == ~pre /\ s # <<>> /\ s[Len(s)] \in {"+", "-"}
                body == IF pre THEN Tail(s)
                        ELSE IF post THEN SubSeq(s, 1, Len(s) - 1) ELSE s
                neg == (pre /\ Head(s) = "-") \/ (post /\ s[Len(s)] = "-")
            IN  IF body # <<>> /\ AllDigits(body)
                THEN PyInt(IF neg THEN 0 - DigitsVal(body) ELSE DigitsVal(body))
                ELSE None
      [] OTHER -> None

\* Metadata.harmonize_metadata on self._data: the dict it leaves and the
\* exception it raises ("none" when it returns).
harmonize_metadata(data) ==
    LET d1 == _interpret_pepmass_metadata(data)
        ionmode == get(d1, "ionmode", None)
        d2 == IF ionmode # None THEN setitem(d1, "ionmode", PyStr(lower(ionmode.s))) ELSE d1
        d3 == IF get(d2, "ionmode", None) = None THEN setitem(d2, "ionmode", PyStr(NA)) ELSE d2
        r  == _add_precursor_mz_metadata(d3)
        charge == get(r.d, "charge", None)
    IN  IF ionmode # None /\ ~isinstance(ionmode, {"str"})
        THEN [exc |-> "AttributeError", d |-> d1]
        ELSE IF r.exc # "none" THEN [exc |-> r.exc, d |-> d3]
        ELSE IF ~isinstance(charge, {"int"}) /\ _convert_charge_to_int(charge) # None
        THEN [exc |-> "none", d |-> setitem(r.d, "charge", _convert_charge_to_int(charge))]
        ELSE [exc |-> "none", d |-> r.d]

\* Metadata.__init__(metadata, harmonize_defaults) for a Mapping metadata
Metadata_init(mapping, harmonize) ==
    IF harmonize THEN harmonize_metadata(mapping) ELSE [exc |-> "none", d |-> mapping]

\* Metadata.set(key, value), which __setitem__ calls
Metadata_set(data, harmonize, key, value) ==
    IF harmonize THEN harmonize_metadata(setitem(data, key, value))
    ELSE [exc |-> "none", d |-> setitem(data, key, value)]

(***************************************************************************)
(* matchms/filtering/clean_inchis.py                                       *)
(***************************************************************************)
INCHI == <<"I", "n", "C", "h", "I", "=">>
QUOTE == <<"\"">>

empty_entry_types ==
    {PyStr(<<"N", "/", "A">>), PyStr(NA), PyStr(<<"N", "A">>), PyInt(0),
     PyStr(<<"0">>), PyStr(QUOTE \o QUOTE), PyStr(<<>>),
     PyStr(<<"n", "o", "d", "a", "t", "a">>),
     PyStr(QUOTE \o INCHI \o NA \o QUOTE), PyStr(QUOTE \o INCHI \o QUOTE),
     PyStr(INCHI \o <<"1", "S", "/", "N", "\n">>), PyStr(<<"\t", "\r", "\n">>)}

\* inchi in empty_entry_types: == on the elements, so 0.0 equals the int 0
InEmptyEntryTypes(inchi) ==
    \/ inchi \in empty_entry_types
    \/ inchi.t = "float" /\ inchi.n = 0

\* Lines 27-35: the payload after the last marker, wrapped in quotes.
Rewrap(working) ==
    LET inchi == SplitLast(strip(working), INCHI)
    IN  IF endswith(inchi, QUOTE) THEN QUOTE \o INCHI \o inchi
        ELSE IF endswith(inchi, <<"\n">>) THEN QUOTE \o INCHI \o DropLast(inchi, 2) \o QUOTE
        ELSE IF endswith(inchi, <<"\n", "\"">>)
        THEN QUOTE \o INCHI \o DropLast(inchi, 3) \o QUOTE
        ELSE QUOTE \o INCHI \o inchi \o QUOTE

\* clean_inchis on spectrum.metadata["inchi"]; converted is what mol_converter
\* returns if it is called (a str, or None for a structure it rejects).
\* The result: the exception raised ("none" when it returns), the inchi
\* stored, and whether mol_converter was called.
clean_inchis(inchi, rescue_smiles, converted) ==
    LET nospace == RemoveChar(inchi.s, " ")
        payload == SplitLast(nospace, INCHI)
        rescue  == payload[1] \in {"C", "c", "O", "N"} /\ rescue_smiles
    IN  IF InEmptyEntryTypes(inchi)
        THEN [exc |-> "none", inchi |-> PyStr(NA), converter |-> FALSE]
        ELSE IF inchi.t # "str"
        THEN [exc |-> "AttributeError", inchi |-> inchi, converter |-> FALSE]
        ELSE IF payload = <<>>
        THEN [exc |-> "IndexError", inchi |-> inchi, converter |-> FALSE]
        ELSE IF rescue /\ converted.t # "str"
        THEN [exc |-> "AttributeError", inchi |-> inchi, converter |-> TRUE]
        ELSE [exc |-> "none",
              inchi |-> PyStr(Rewrap(IF rescue THEN converted.s ELSE nospace)),
              converter |-> rescue]

(***************************************************************************)
(* State                                                                   *)
(***************************************************************************)
VARIABLES
    metadata,           \* Metadata._data / the dict handed to a filter
    before,             \* metadata as the last operation found it
    op,                 \* the last operation
    exc,                \* the exception the last operation raised, or "none"
    calls,              \* operations applied so far
    harmonize_defaults, \* Metadata.harmonize_defaults
    passed,             \* the last operation ran a harmonization to its end
    prevPassed,         \* passed, before the last operation
    lastIonmode,        \* the last non-null ionmode assigned to the record
    rescue_smiles,      \* clean_inchis' argument
    converter           \* the last operation called mol_converter

vars == <<metadata, before, op, exc, calls, harmonize_defaults, passed,
          prevPassed, lastIonmode, rescue_smiles, converter>>

(***************************************************************************)
(* Inputs                                                                  *)
(***************************************************************************)
Absent == Val("absent", 0, <<>>, <<>>)

\* The dict with the keys of order, in that order, that vals gives a value.
MakeDict(order, vals) ==
    SelectSeq([i \in 1..Len(order) |-> Entry(order[i], vals[order[i]])],
              LAMBDA e : e.v # Absent)

S100_5 == <<"1", "0", "0", ".", "5">>
S120_1 == <<"1", "2", "0", ".", "1">>
SN_A == <<"N", "/", "A">>
Sabc == <<"a", "b", "c">>
S_7_ == <<" ", "7", " ">>
SPOSITIVE == <<"P", "O", "S", "I", "T", "I", "V", "E">>
Snegative == <<"n", "e", "g", "a", "t", "i", "v", "e">>

Keys == {"precursor_mz", "precursormz", "precursor_mass", "pepmass", "ionmode",
         "charge", "compound_name"}

KeyOrders ==
    {<<"precursor_mz", "precursormz", "precursor_mass", "pepmass", "ionmode",
       "charge", "compound_name">>,
     <<"compound_name", "pepmass", "precursor_mass", "precursormz", "precursor_mz",
       "charge", "ionmode">>,
     <<"precursormz", "charge", "precursor_mz", "ionmode", "precursor_mass",
       "compound_name", "pepmass">>}

PepmassPool ==
    {Absent, None,
     PyList(<<PyFloat(502), PyInt(10)>>),
     PyList(<<PyFloat(1201), PyInt(5)>>),
     PyList(<<PyInt(120), PyInt(5)>>),
     PyList(<<PyStr(S120_1), PyStr(<<"5">>)>>),
     PyList(<<PyStr(Sabc)>>),
     PyList(<<>>),
     PyFloat(1201)}

\* The values of a record, by key
Vals(pmz, alias1, alias2, pepmass, ionmode, charge, name) ==
    [k \in Keys |->
        CASE k = "precursor_mz" -> pmz
          [] k = "precursormz" -> alias1
          [] k = "precursor_mass" -> alias2
          [] k = "pepmass" -> pepmass
          [] k = "ionmode" -> ionmode
          [] k = "charge" -> charge
          [] OTHER -> name]

\* Inputs of _add_precursor_mz_metadata
ResolverInputs ==
    {MakeDict(order, Vals(pmz, alias1, alias2, pepmass, PyStr(Snegative), Absent, name)) :
        order \in KeyOrders,
        pmz \in {Absent, None, PyFloat(1005), PyStr(Sabc), PyStr(S_7_)},
        alias1 \in {Absent, PyStr(S100_5), PyStr(SN_A), PyInt(120)},
        alias2 \in {Absent, PyFloat(2000), PyStr(<<>>), PyDict},
        pepmass \in PepmassPool,
        name \in {Absent, PyStr(Sabc)}}

\* Mappings handed to Metadata.__init__
RecordInputs ==
    {MakeDict(order, Vals(pmz, alias1, alias2, pepmass, ionmode, charge, Absent)) :
        order \in {o \in KeyOrders : o[1] = "precursor_mz"},
        pmz \in {Absent, PyFloat(1005), PyStr(Sabc)},
        alias1 \in {Absent, PyStr(S100_5), PyStr(SN_A)},
        alias2 \in {Absent, PyInt(120)},
        pepmass \in {Absent, PyList(<<PyFloat(1201), PyInt(5)>>),
                     PyList(<<PyInt(120), PyInt(5)>>),
                     PyList(<<PyStr(S120_1), PyStr(<<"5">>)>>), PyList(<<PyStr(Sabc)>>)},
        ionmode \in {Absent, None, PyStr(SPOSITIVE), PyInt(1)},
        charge \in {Absent, PyInt(2), PyStr(<<"2", "+">>), PyFloat(20)}}

\* Arguments of Metadata.set
SetInputs ==
    {<<"ionmode", None>>, <<"ionmode", PyStr(SPOSITIVE)>>, <<"ionmode", PyStr(Snegative)>>,
     <<"ionmode", PyInt(1)>>, <<"charge", PyStr(<<"1", "-">>)>>, <<"charge", PyStr(Sabc)>>,
     <<"pepmass", PyList(<<PyInt(120), PyInt(5)>>)>>, <<"pepmass", PyFloat(1201)>>,
     <<"precursor_mz", PyStr(S100_5)>>, <<"compound_name", PyStr(Sabc)>>}

\* Values of spectrum.metadata["inchi"]: an optional quote, an optional
\* InChI= marker, a body and an ending.
InchiInputs ==
    {PyStr(quote \o marker \o body \o ending) :
        quote \in {<<>>, QUOTE},
        marker \in {<<>>, INCHI},
        body \in {<<>>, <<"1", "S", "/", "H">>, <<"C", "C">>, NA, SN_A, <<"N", "A">>,
                  <<" ">>, <<"\t">>},
        ending \in {<<>>, QUOTE, <<"\n">>, <<"\n", "\"">>}}
    \cup {None, PyInt(0), PyStr(<<"\t", "\r", "\n">>)}

\* What mol_converter may return: an InChI, bare or quoted, or None.
ConverterOutputs ==
    {PyStr(INCHI \o <<"1", "S", "/", "X">>),
     PyStr(QUOTE \o INCHI \o <<"1", "S", "/", "X">> \o QUOTE),
     None}

(***************************************************************************)
(* The Metadata record: construction, set, harmonize_metadata              *)
(***************************************************************************)
Init ==
    /\ metadata \in RecordInputs
    /\ before = metadata
    /\ op = "input"
    /\ exc = "none"
    /\ calls = 0
    /\ harmonize_defaults \in BOOLEAN
    /\ passed = FALSE
    /\ prevPassed = FALSE
    /\ lastIonmode = get(metadata, "ionmode", None)
    /\ rescue_smiles = FALSE
    /\ converter = FALSE

\* A record exists and may be operated on.
Constructed ==
    /\ op \in {"__init__", "set", "harmonize_metadata"}
    /\ ~(op = "__init__" /\ exc # "none")

\* Metadata(metadata, harmonize_defaults)
Construct ==
    /\ op = "input"
    /\ LET r == Metadata_init(metadata, harmonize_defaults)
       IN  /\ metadata' = r.d
           /\ exc' = r.exc
           /\ passed' = (harmonize_defaults /\ r.exc = "none")
    /\ before' = metadata
    /\ op' = "__init__"
    /\ prevPassed' = passed
    /\ UNCHANGED <<calls, harmonize_defaults, lastIonmode, rescue_smiles, converter>>

\* record.set(key, value) / record[key] = value
Set(key, value) ==
    /\ Constructed
    /\ calls < MaxCalls
    /\ LET r == Metadata_set(metadata, harmonize_defaults, key, value)
       IN  /\ metadata' = r.d
           /\ exc' = r.exc
           /\ passed' = (harmonize_defaults /\ r.exc = "none")
    /\ before' = metadata
    /\ op' = "set"
    /\ prevPassed' = passed
    /\ calls' = calls + 1
    /\ lastIonmode' = IF key = "ionmode" /\ value # None THEN value ELSE lastIonmode
    /\ UNCHANGED <<harmonize_defaults, rescue_smiles, converter>>

\* record.harmonize_metadata()
Harmonize ==
    /\ Constructed
    /\ calls < MaxCalls
    /\ LET r == harmonize_metadata(metadata)
       IN  /\ metadata' = r.d
           /\ exc' = r.exc
           /\ passed' = (r.exc = "none")
    /\ before' = metadata
    /\ op' = "harmonize_metadata"
    /\ prevPassed' = passed
    /\ calls' = calls + 1
    /\ UNCHANGED <<harmonize_defaults, lastIonmode, rescue_smiles, converter>>

Next ==
    \/ Construct
    \/ \E kv \in SetInputs : Set(kv[1], kv[2])
    \/ Harmonize

Spec == Init /\ [][Next]_vars

(***************************************************************************)
(* _add_precursor_mz_metadata applied to a dict                            *)
(***************************************************************************)
InitResolver ==
    /\ metadata \in ResolverInputs
    /\ before = metadata
    /\ op = "input"
    /\ exc = "none"
    /\ calls = 0
    /\ harmonize_defaults = FALSE
    /\ passed = FALSE
    /\ prevPassed = FALSE
    /\ lastIonmode = None
    /\ rescue_smiles = FALSE
    /\ converter = FALSE

AddPrecursorMz ==
    /\ calls < MaxCalls
    /\ LET r == _add_precursor_mz_metadata(metadata)
       IN  /\ metadata' = r.d
           /\ exc' = r.exc
           /\ passed' = (r.exc = "none")
    /\ before' = metadata
    /\ op' = "_add_precursor_mz_metadata"
    /\ prevPassed' = passed
    /\ calls' = calls + 1
    /\ UNCHANGED <<harmonize_defaults, lastIonmode, rescue_smiles, converter>>

NextResolver == AddPrecursorMz

SpecResolver == InitResolver /\ [][NextResolver]_vars

(***************************************************************************)
(* clean_inchis applied to a spectrum's metadata                           *)
(***************************************************************************)
InitInchi ==
    /\ metadata \in {<<Entry("inchi", v)>> : v \in InchiInputs}
    /\ before = metadata
    /\ op = "input"
    /\ exc = "none"
    /\ calls = 0
    /\ harmonize_defaults = FALSE
    /\ passed = FALSE
    /\ prevPassed = FALSE
    /\ lastIonmode = None
    /\ rescue_smiles \in BOOLEAN
    /\ converter = FALSE

\* clean_inchis(spectrum, rescue_smiles); converted is mol_converter's answer
CleanInchis(converted) ==
    /\ calls < MaxCalls
    /\ LET r == clean_inchis(get(metadata, "inchi", None), rescue_smiles, converted)
       IN  /\ metadata' = setitem(metadata, "inchi", r.inchi)
           /\ exc' = r.exc
           /\ converter' = r.converter
           /\ passed' = (r.exc = "none" /\ ~r.converter)
    /\ before' = metadata
    /\ op' = "clean_inchis"
    /\ prevPassed' = passed
    /\ calls' = calls + 1
    /\ UNCHANGED <<harmonize_defaults, lastIonmode, rescue_smiles>>

NextInchi == \E converted \in ConverterOutputs : CleanInchis(converted)

SpecInchi == InitInchi /\ [][NextInchi]_vars

(***************************************************************************)
(* Properties                                                              *)
(***************************************************************************)
\* The precursor-m/z alias class, in the declared order of resolution.
DeclaredOrder == <<"precursor_mz", "precursormz", "precursor_mass">>
AliasClass == {DeclaredOrder[i] : i \in 1..Len(DeclaredOrder)}

\* The value under the first key of the declared order that d holds.
FirstPresent(d) ==
    LET present == {i \in 1..Len(DeclaredOrder) : HasKey(d, DeclaredOrder[i])}
    IN  IF present = {} THEN None
        ELSE get(d, DeclaredOrder[CHOOSE i \in present : \A j \in present : i <= j], None)

\* The first token of d's pepmass, None when there is none.
PepmassToken(d) ==
    IF get(d, "pepmass", None) = None THEN None ELSE Subscript0(get(d, "pepmass", None)).v

SameEntry(d, e, k) == HasKey(d, k) = HasKey(e, k) /\ get(d, k, None) = get(e, k, None)

RecordOps == {"__init__", "set", "harmonize_metadata"}

\* C1: a harmonize_metadata run that follows a completed harmonization pass
\* returns and leaves the record (keys, values, value types) as it found it.
C1_HarmonizeIdempotent ==
    (op = "harmonize_metadata" /\ prevPassed) => (exc = "none" /\ metadata = before)

C4_TypedFields ==
    (op \in RecordOps /\ passed) =>
        /\ _convert_precursor_mz(get(metadata, "precursor_mz", None)) # None =>
              get(metadata, "precursor_mz", None).t = "float"
        /\ HasKey(metadata, "charge") => get(metadata, "charge", None).t = "int"

\* C5: on a record built with harmonization enabled, after construction and
\* after every set, ionmode is present, is a str without upper-case letter,
\* and is "n/a" or the lower-cased last non-null ionmode assigned.
C5_IonmodeNormalized ==
    (harmonize_defaults /\ Constructed) =>
        LET v == get(metadata, "ionmode", None)
        IN  /\ HasKey(metadata, "ionmode")
            /\ v.t = "str"
            /\ \A i \in 1..Len(v.s) : ~IsUpper(v.s[i])
            /\ \/ v.s = NA
               \/ lastIonmode.t = "str" /\ v.s = lower(lastIonmode.s)

\* C6: constructing a record, setting a field and running a harmonization
\* pass never raise, whatever the values stored.
C6_NeverRaises == op \in RecordOps => exc = "none"

\* An empty form of the inchi field: an N/A variant, the empty or a
\* whitespace-only string, or InChI= without a body, quoted or not.
EmptyForm(v) ==
    /\ v.t = "str"
    /\ \/ v.s \in {SN_A, NA, <<"N", "A">>}
       \/ \A i \in 1..Len(v.s) : v.s[i] \in Whitespace
       \/ RemoveChar(v.s, "\"") = INCHI

\* C7: clean_inchis returns on every empty form of inchi and stores "n/a".
C7_EmptyFormsToSentinel ==
    (op = "clean_inchis" /\ EmptyForm(get(before, "inchi", None))) =>
        (exc = "none" /\ get(metadata, "inchi", None) = PyStr(NA))

\* A value clean_inchis stores without rescue: "n/a", or a quoted
\* "InChI=<payload>" whose payload does not start with C, c, O or N.
CanonicalInchi(v) ==
    /\ v.t = "str"
    /\ \/ v.s = NA
       \/ /\ Len(v.s) >= 8
          /\ SubSeq(v.s, 1, 7) = QUOTE \o INCHI
          /\ v.s[Len(v.s)] = "\""
          /\ v.s[8] \notin {"C", "c", "O", "N"}

\* C8: applied to a value a clean_inchis call without rescue stored,
\* clean_inchis returns, leaves inchi unchanged and calls no converter.
C8_CleanIdempotent ==
    (op = "clean_inchis" /\ prevPassed /\ CanonicalInchi(get(before, "inchi", None))) =>
        (exc = "none" /\ metadata = before /\ ~converter)

\* "InChI=<payload>": one opening quote and the marker, one closing quote,
\* and a payload without quote and without trailing newline.
CanonicalShape(s) ==
    /\ Len(s) >= 8
    /\ SubSeq(s, 1, 7) = QUOTE \o INCHI
    /\ s[Len(s)] = "\""
    /\ LET payload == SubSeq(s, 8, Len(s) - 1)
       IN  /\ \A i \in 1..Len(payload) : payload[i] # "\""
           /\ payload # <<>> => payload[Len(payload)] # "\n"

\* An input variant: a payload without quote or whitespace, after an
\* optional opening quote and an optional InChI= marker, ending in a quote,
\* in a newline or in a newline followed by a quote.
InputVariant(v) ==
    /\ v.t = "str"
    /\ \E ending \in {QUOTE, <<"\n">>, <<"\n", "\"">>} :
          /\ endswith(v.s, ending)
          /\ LET body == DropLast(v.s, Len(ending))
                 unquoted == IF body # <<>> /\ Head(body) = "\"" THEN Tail(body) ELSE body
                 payload == IF OccursAt(unquoted, INCHI, 1)
                            THEN SubSeq(unquoted, Len(INCHI) + 1, Len(unquoted))
                            ELSE unquoted
             IN  /\ payload # <<>>
                 /\ \A i \in 1..Len(payload) : payload[i] \notin Whitespace \cup {"\""}

\* C9: when clean_inchis returns on a non-sentinel input that ends in a
\* quote, a newline or a newline followed by a quote, the inchi it stores
\* has the shape "InChI=<payload>".
C9_CanonicalShape ==
    (/\ op = "clean_inchis"
     /\ exc = "none"
     /\ ~InEmptyEntryTypes(get(before, "inchi", None))
     /\ InputVariant(get(before, "inchi", None))) =>
        CanonicalShape(get(metadata, "inchi", None).s)

\* C10: _add_precursor_mz_metadata leaves every key outside the alias class
\* as it was, and unless a direct key resolves it removes no key and leaves
\* precursormz and precursor_mass as they were.
C10_Frame ==
    op = "_add_precursor_mz_metadata" =>
        /\ \A k \in Keys \ AliasClass : SameEntry(metadata, before, k)
        /\ _convert_precursor_mz(FirstPresent(before)) = None =>
              /\ \A i \in 1..Len(before) : HasKey(metadata, before[i].k)
              /\ SameEntry(metadata, before, "precursormz")
              /\ SameEntry(metadata, before, "precursor_mass")

\* C10 happens: precursormz = "N/A" does not resolve, precursor_mz comes from
\* pepmass, and precursormz and pepmass are still there.
C10_Witness ==
    /\ op = "_add_precursor_mz_metadata"
    /\ exc = "none"
    /\ get(before, "precursormz", None) = PyStr(SN_A)
    /\ ~HasKey(before, "precursor_mz")
    /\ get(metadata, "precursor_mz", None) = PyFloat(1201)
    /\ get(metadata, "precursormz", None) = PyStr(SN_A)
    /\ get(metadata, "pepmass", None) = PyList(<<PyFloat(1201), PyInt(5)>>)

====
